---- MODULE Spec2Model ----
(***************************************************************************)
(* Model of BaseTransformer                                                *)
(* (packages/core/src/classes/transformer/base-transformer.ts).            *)
(*                                                                         *)
(* The transformer is stateless: every method is a function of its         *)
(* arguments and of the entity metadata registered on the connection.      *)
(* The state of the model is the registered metadata, the last call (its   *)
(* name and arguments) and what that call produced: the value returned or  *)
(* the error thrown, plus the intermediate values the code computes.       *)
(*                                                                         *)
(* JavaScript values are tagged records (Str, Undef, Obj); an object is a  *)
(* function from its keys to values.  A schema object is a node with its   *)
(* keys in declaration order (Object.keys order).                          *)
(***************************************************************************)
EXTENDS Integers, Sequences, FiniteSets, TLC

VARIABLES
    metadata,   \* connection.getEntityByTarget(entityClass) and the auto-generated attributes
    op,         \* the method called last ("none" before the first call)
    args,       \* its arguments
    ret         \* its outcome

vars == <<metadata, op, args, ret>>

-----------------------------------------------------------------------------
\* Bounds of the model.

\* nesting depth of the schema objects handed to recursiveParseEntity
MaxDepth == 2
\* number of indexes declared on an entity
MaxIndexes == 2
\* number of attributes in the bag handed to getAffectedIndexesForAttributes
MaxChanged == 2

-----------------------------------------------------------------------------
\* JavaScript values.

Str(s) == [t |-> "string", s |-> s, o |-> <<>>]
Undef == [t |-> "undefined", s |-> "", o |-> <<>>]
Obj(m) == [t |-> "object", s |-> "", o |-> m]

EmptyObject == [k \in {} |-> Undef]

\* a[k] of JavaScript: undefined when a has no key k
Get(a, k) == IF k \in DOMAIN a THEN a[k] ELSE Undef

\* {...a, ...b}: b's keys override a's
Spread(a, b) == [k \in (DOMAIN a) \cup (DOMAIN b) |-> IF k \in DOMAIN b THEN b[k] ELSE a[k]]

\* {...a, [k]: v}
With(a, k, v) == [x \in (DOMAIN a) \cup {k} |-> IF x = k THEN v ELSE a[x]]

\* the truthiness of a value: if (v)
Truthy(v) == v.t = "object" \/ (v.t = "string" /\ v.s # "")

\* s.includes(sub)
Includes(s, sub) ==
    \E i \in 1..(Len(s) - Len(sub) + 1) : SubSeq(s, i, i + Len(sub) - 1) = sub

-----------------------------------------------------------------------------
\* Key templates and the helpers of ../../helpers.

Lit(s) == [ref |-> FALSE, s |-> s]
Ref(a) == [ref |-> TRUE, s |-> a]

\* the outcome of a call: err = "" when it returned v
Ok(v) == [err |-> "", v |-> v]
Throw(e) == [err |-> e, v |-> Undef]

\* String(v) as a template substitutes it
Stringify(v) == IF v.t = "string" THEN v.s ELSE "[object Object]"

RECURSIVE Interpolate(_, _, _)
Interpolate(key, dict, i) ==
    IF i > Len(key) THEN ""
    ELSE (IF key[i].ref THEN Stringify(dict[key[i].s]) ELSE key[i].s)
             \o Interpolate(key, dict, i + 1)

\* the attribute names a template references
Referenced(key) == {key[i].s : i \in {j \in 1..Len(key) : key[j].ref}}

\* parseKey(key, dict, {isSparseIndex})
parseKey(key, dict, isSparseIndex) ==
    IF \E a \in Referenced(key) : Get(dict, a).t = "undefined"
    THEN IF isSparseIndex THEN Ok(Undef) ELSE Throw("MissingAttributeError")
    ELSE Ok(Str(Interpolate(key, dict, 1)))

\* isScalarType(v)
isScalarType(v) == v.t = "string"

\* isEmptyObject(o)
isEmptyObject(o) == DOMAIN o = {}

-----------------------------------------------------------------------------
\* Schema objects: a node lists its keys in declaration order; a child is a
\* key template (a leaf) or a nested schema object, which may carry isSparse.

Leaf(tmpl) == [leaf |-> TRUE, tmpl |-> tmpl, node |-> <<>>]
Sub(node) == [leaf |-> FALSE, tmpl |-> <<>>, node |-> node]
Node(isSparse, keys, at) == [isSparse |-> isSparse, keys |-> keys, at |-> at]

\* isObject(currentValue)
isObject(child) == ~child.leaf

\* line 199: the sparse context handed down to a nested object, !!currentValue.isSparse
MutNestedSparseInherits(currentValue, isSparse) == isSparse \/ currentValue.isSparse
NestedSparse(currentValue, isSparse) == currentValue.isSparse

\* line 207: if (parsedKey)
MutKeepWhenDefined(parsedKey) == parsedKey.t # "undefined"
KeepLeaf(parsedKey) == Truthy(parsedKey)

\* line 196: acc[key] = <the nested object's result>
MutAssignUnlessEmpty(acc, key, value) == IF isEmptyObject(value.o) THEN acc ELSE With(acc, key, value)
AssignNested(acc, key, value) == With(acc, key, value)

\* the parseKey calls a nested call made, seen from the parent
Under(key, calls) == {[path |-> <<key>> \o c.path, sparse |-> c.sparse] : c \in calls}

\* recursiveParseEntity(schema, entity, isSparse): the reduce over Object.keys(schema),
\* from key number i with accumulator acc; a throw ends the reduce.
\* The outcome carries the parseKey calls made: the leaf's path and its isSparseIndex.
RECURSIVE ReduceSchema(_, _, _, _, _)
ReduceSchema(schema, entity, isSparse, i, acc) ==
    IF i > Len(schema.keys) \/ acc.err # "" THEN acc
    ELSE LET key == schema.keys[i]
             currentValue == schema.at[key]
         IN IF isObject(currentValue)
            THEN LET sub == ReduceSchema(currentValue.node, entity,
                                NestedSparse(currentValue.node, isSparse), 1,
                                [err |-> "", v |-> EmptyObject, calls |-> {}])
                 IN ReduceSchema(schema, entity, isSparse, i + 1,
                        [err |-> sub.err,
                         v |-> IF sub.err = "" THEN AssignNested(acc.v, key, Obj(sub.v)) ELSE acc.v,
                         calls |-> acc.calls \cup Under(key, sub.calls)])
            ELSE LET parsedKey == parseKey(currentValue.tmpl, entity, isSparse)
                 IN ReduceSchema(schema, entity, isSparse, i + 1,
                        [err |-> parsedKey.err,
                         v |-> IF parsedKey.err = "" /\ KeepLeaf(parsedKey.v)
                               THEN With(acc.v, key, parsedKey.v) ELSE acc.v,
                         calls |-> acc.calls \cup {[path |-> <<key>>, sparse |-> isSparse]}])

recursiveParseEntity(schema, entity, isSparse) ==
    ReduceSchema(schema, entity, isSparse, 1, [err |-> "", v |-> EmptyObject, calls |-> {}])

-----------------------------------------------------------------------------
\* toDynamoEntity.

\* INDEX_TYPE of @typedorm/common
GSI == "GLOBAL_SECONDARY_INDEX"
LSI == "LOCAL_SECONDARY_INDEX"

\* metadata.table.getIndexByKey(name): the signature, undefined when the table has none
getIndexByKey(table, name) == IF name \in DOMAIN table THEN Obj(table[name]) ELSE Undef

\* lines 37-41: every auto-generated attribute overwrites the entity's field
RECURSIVE AutoPopulate(_, _, _)
AutoPopulate(attributes, i, entity) ==
    IF i > Len(attributes) THEN entity
    ELSE AutoPopulate(attributes, i + 1,
            IF attributes[i].autoGenerated
            THEN With(entity, attributes[i].name, attributes[i].value)
            ELSE entity)

\* getParsedPrimaryKey(table, primaryKey, attributes)
getParsedPrimaryKey(table, primaryKey, attributes) ==
    recursiveParseEntity(primaryKey.at["attributes"].node, attributes, FALSE)

\* lines 72-77: the projection of a GSI
MutGSIKeepsPartitionKeyOnly(index, sig) ==
    With(EmptyObject, sig.partitionKey.s, Get(index["attributes"].o, sig.partitionKey.s))
ProjectGSI(index, sig) ==
    With(With(EmptyObject, sig.partitionKey.s, Get(index["attributes"].o, sig.partitionKey.s)),
         sig.sortKey.s, Get(index["attributes"].o, sig.sortKey.s))

\* lines 82-85: the projection of an LSI
ProjectLSI(index, sig) ==
    With(EmptyObject, sig.sortKey.s, Get(index["attributes"].o, sig.sortKey.s))

\* lines 67-89: onlyKeysIndex.  Reading .type of an undefined signature is a TypeError;
\* && evaluates it only when the index's own type matched.
OnlyKeysIndex(index, tableIndexSignature) ==
    LET type == Get(index["metadata"].o, "type")
        noSignature == tableIndexSignature.t = "undefined"
    IN  IF type = Str(GSI) /\ noSignature THEN Throw("TypeError")
        ELSE IF type = Str(GSI) /\ tableIndexSignature.o.type = Str(GSI)
        THEN Ok(Obj(ProjectGSI(index, tableIndexSignature.o)))
        ELSE IF type = Str(LSI) /\ noSignature THEN Throw("TypeError")
        ELSE IF type = Str(LSI) /\ tableIndexSignature.o.type = Str(LSI)
        THEN Ok(Obj(ProjectLSI(index, tableIndexSignature.o)))
        ELSE Ok(Obj(index))

\* lines 60-93: the reduce over Object.keys(indexes), from key number i; acc holds the
\* merged map and, for the record, each index's onlyKeysIndex
RECURSIVE NormalizeIndexes(_, _, _, _, _)
NormalizeIndexes(table, indexes, keys, i, acc) ==
    IF i > Len(keys) \/ acc.err # "" THEN acc
    ELSE LET index == indexes[keys[i]].o
             name == Get(index["metadata"].o, "_name")
             tableIndexSignature ==
                 getIndexByKey(table, IF name.t = "undefined" THEN "" ELSE name.s)
             onlyKeysIndex == OnlyKeysIndex(index, tableIndexSignature)
         IN NormalizeIndexes(table, indexes, keys, i + 1,
                [err |-> onlyKeysIndex.err,
                 v |-> IF onlyKeysIndex.err = "" THEN Spread(acc.v, onlyKeysIndex.v.o) ELSE acc.v,
                 only |-> IF onlyKeysIndex.err = ""
                          THEN With(acc.only, keys[i], onlyKeysIndex.v) ELSE acc.only])

\* lines 96-101: {...entity, ...{...normalizedPrimaryKey, ...normalizedIndexes}}
MutEntityWins(entity, normalizedPrimaryKey, normalizedIndexes) ==
    Spread(Spread(normalizedPrimaryKey, normalizedIndexes), entity)
FormatSchema(entity, normalizedPrimaryKey, normalizedIndexes) ==
    Spread(entity, Spread(normalizedPrimaryKey, normalizedIndexes))

\* the keys of the parsed indexes, in the order of the schema's (nothing is added
\* to or left out of parsedSchema.indexes, see AssignNested)
IndexKeys(schema) ==
    IF "indexes" \in DOMAIN schema.at THEN schema.at["indexes"].node.keys ELSE <<>>

Thrown(e) ==
    [err |-> e, v |-> EmptyObject, entity |-> EmptyObject, parsedSchema |-> EmptyObject,
     normalizedPrimaryKey |-> EmptyObject, only |-> EmptyObject, normalizedIndexes |-> EmptyObject]

\* toDynamoEntity(entity), for the metadata md of the entity's class
toDynamoEntity(md, entity0) ==
    LET entity == AutoPopulate(md.attributes, 1, entity0)
        parsedSchema == recursiveParseEntity(md.schema, entity, FALSE)
        normalizedPrimaryKey ==
            getParsedPrimaryKey(md.table, md.schema.at["primaryKey"].node, entity)
        indexes == IF "indexes" \in DOMAIN parsedSchema.v
                   THEN Spread(EmptyObject, parsedSchema.v["indexes"].o) ELSE EmptyObject
        normalizedIndexes ==
            NormalizeIndexes(md.table, indexes, IndexKeys(md.schema), 1,
                             [err |-> "", v |-> EmptyObject, only |-> EmptyObject])
    IN  IF parsedSchema.err # "" THEN Thrown(parsedSchema.err)
        ELSE IF normalizedPrimaryKey.err # "" THEN Thrown(normalizedPrimaryKey.err)
        ELSE IF normalizedIndexes.err # ""
        THEN [Thrown(normalizedIndexes.err) EXCEPT !.entity = entity, !.parsedSchema = parsedSchema.v]
        ELSE [err |-> "",
              v |-> FormatSchema(entity, normalizedPrimaryKey.v, normalizedIndexes.v),
              entity |-> entity,
              parsedSchema |-> parsedSchema.v,
              normalizedPrimaryKey |-> normalizedPrimaryKey.v,
              only |-> normalizedIndexes.only,
              normalizedIndexes |-> normalizedIndexes.v]

-----------------------------------------------------------------------------
\* getAffectedIndexesForAttributes.  The attribute bag lists its keys in
\* Object.keys order: [keys, at].

\* lines 126-129: the changed attribute is skipped
MutSkipNestedOnly(attrKey, currAttrValue, nestedKeySeparator) ==
    Includes(attrKey, nestedKeySeparator)
SkipAttribute(attrKey, currAttrValue, nestedKeySeparator) ==
    Includes(attrKey, nestedKeySeparator) \/ ~isScalarType(currAttrValue)

\* line 157: acc[interpolationKey] = parsedIndex
MutKeyedByIndexName(acc, key, interpolationKey, parsedIndex) == With(acc, key, parsedIndex)
AssignAffected(acc, key, interpolationKey, parsedIndex) == With(acc, interpolationKey, parsedIndex)

\* lines 139-140: currIndex.metadata._interpolations ?? {}
InterpolationsOf(md, key) ==
    IF key \in DOMAIN md.interpolations THEN md.interpolations[key]
    ELSE [keys |-> <<>>, at |-> EmptyObject]

\* lines 148-159: the forEach over Object.keys(interpolationsForCurrIndex), from
\* number m; acc also holds the templates resolved
RECURSIVE EachInterpolation(_, _, _, _, _, _)
EachInterpolation(md, attributes, attrKey, key, m, acc) ==
    LET interpolationsForCurrIndex == InterpolationsOf(md, key)
    IN  IF m > Len(interpolationsForCurrIndex.keys) \/ acc.err # "" THEN acc
        ELSE LET interpolationKey == interpolationsForCurrIndex.keys[m]
                 currentInterpolation == interpolationsForCurrIndex.at[interpolationKey]
                 currIndex == md.schema.at["indexes"].node.at[key].node
                 template == currIndex.at["attributes"].node.at[interpolationKey].tmpl
                 parsedIndex == parseKey(template, attributes.at, FALSE)
             IN EachInterpolation(md, attributes, attrKey, key, m + 1,
                    IF attrKey \in currentInterpolation
                    THEN [err |-> parsedIndex.err,
                          v |-> IF parsedIndex.err = ""
                                THEN AssignAffected(acc.v, key, interpolationKey, parsedIndex.v)
                                ELSE acc.v,
                          calls |-> acc.calls \cup {[index |-> key, attribute |-> interpolationKey]}]
                    ELSE acc)

\* lines 137-160: the forEach over Object.keys(indexes), from number j; an index
\* without interpolations is passed over
RECURSIVE EachIndex(_, _, _, _, _)
EachIndex(md, attributes, attrKey, j, acc) ==
    LET keys == md.schema.at["indexes"].node.keys
    IN  IF j > Len(keys) \/ acc.err # "" THEN acc
        ELSE EachIndex(md, attributes, attrKey, j + 1,
                IF isEmptyObject(InterpolationsOf(md, keys[j]).at) THEN acc
                ELSE EachInterpolation(md, attributes, attrKey, keys[j], 1, acc))

\* lines 122-165: the reduce over Object.keys(attributes), from number i
RECURSIVE EachAttribute(_, _, _, _, _)
EachAttribute(md, attributes, nestedKeySeparator, i, acc) ==
    IF i > Len(attributes.keys) \/ acc.err # "" THEN acc
    ELSE LET attrKey == attributes.keys[i]
             currAttrValue == attributes.at[attrKey]
         IN EachAttribute(md, attributes, nestedKeySeparator, i + 1,
                IF SkipAttribute(attrKey, currAttrValue, nestedKeySeparator) THEN acc
                ELSE IF "indexes" \notin DOMAIN md.schema.at THEN acc
                ELSE EachIndex(md, attributes, attrKey, 1, acc))

\* line 117: options?.nestedKeySeparator ?? '.'
NestedKeySeparator(options) == IF options.t = "undefined" THEN "." ELSE options.s

\* getAffectedIndexesForAttributes(entityClass, attributes, options)
getAffectedIndexesForAttributes(md, attributes, options) ==
    EachAttribute(md, attributes, NestedKeySeparator(options), 1,
                  [err |-> "", v |-> EmptyObject, calls |-> {}])

-----------------------------------------------------------------------------
\* Inputs.

\* the values an entity field takes: absent, the empty string, a non-empty string
FieldValues == {"", "42"}

\* the entities over the fields names: every field absent or set to a string
EntitiesOver(names) ==
    UNION {[present -> {Str(s) : s \in FieldValues}] : present \in SUBSET names}

TmplEmail == <<Ref("email")>>
TmplId == <<Ref("id")>>
TmplUserId == <<Lit("USER#"), Ref("id")>>

\* what a schema object holds under key "a": nothing, or one of the templates
LeafChoices == {<<>>, TmplEmail, TmplId}

\* the schema objects nested at most d deep: an optional leaf "a" and,
\* when d > 0, an optional nested object "n", each with its own isSparse
RECURSIVE SchemaObjects(_)
SchemaObjects(d) ==
    LET leafOnly == {Node(sp, IF l = <<>> THEN <<>> ELSE <<"a">>,
                          IF l = <<>> THEN EmptyObject ELSE [k \in {"a"} |-> Leaf(l)])
                        : sp \in BOOLEAN, l \in LeafChoices}
    IN IF d = 0 THEN leafOnly
       ELSE leafOnly \cup
            {Node(b.isSparse, b.keys \o <<"n">>, With(b.at, "n", Sub(n)))
                : b \in leafOnly, n \in SchemaObjects(d - 1)}

TmplProfileId == <<Lit("PROFILE#"), Ref("id")>>
TmplEmailKey == <<Lit("EMAIL#"), Ref("email")>>
TmplEmailId == <<Ref("email"), Lit("#"), Ref("id")>>

\* an object of leaves: keys in order, tmpls[i] under keys[i]
Leaves(isSparse, keys, tmpls) ==
    Node(isSparse, keys, [k \in {keys[i] : i \in 1..Len(keys)} |->
                             Leaf(tmpls[CHOOSE i \in 1..Len(keys) : keys[i] = k])])

\* the table: GSI1 is keyed by the table's own sort key attribute and GSI1SK,
\* LSI1 by LSI1SK; no other index has a signature
Table ==
    [n \in {"GSI1", "LSI1"} |->
        IF n = "GSI1"
        THEN [type |-> Str(GSI), partitionKey |-> Str("SK"), sortKey |-> Str("GSI1SK")]
        ELSE [type |-> Str(LSI), partitionKey |-> Undef, sortKey |-> Str("LSI1SK")]]

\* the index names an entity may declare: GSI2 is not on the table
IndexNames == {"GSI1", "LSI1", "GSI2"}

\* the attribute templates of an index declared with the given type
IndexAttributes(type, isSparse) ==
    IF type = GSI
    THEN Leaves(isSparse, <<"SK", "GSI1SK", "LSI1SK">>, <<TmplEmailKey, TmplUserId, TmplId>>)
    ELSE Leaves(isSparse, <<"LSI1SK", "GSI1SK">>, <<TmplEmail, TmplEmailId>>)

\* schema.indexes[name]: {attributes, metadata: {type, _name}}.  The walker takes
\* the sparse context of the templates from the object that holds them, so a sparse
\* index is one whose attributes object carries isSparse.
IndexSchema(name, type, isSparse) ==
    Node(FALSE, <<"attributes", "metadata">>,
         [k \in {"attributes", "metadata"} |->
            IF k = "attributes" THEN Sub(IndexAttributes(type, isSparse))
            ELSE Sub(Leaves(FALSE, <<"type", "_name">>, <<<<Lit(type)>>, <<Lit(name)>>>>))])

IndexChoices == [name : IndexNames, type : {GSI, LSI}, isSparse : BOOLEAN]

\* the declarations of at most n indexes, in order, each name once
RECURSIVE IndexLists(_)
IndexLists(n) ==
    IF n = 0 THEN {<<>>}
    ELSE IndexLists(n - 1) \cup
         {Append(l, c) : l \in {x \in IndexLists(n - 1) : Len(x) = n - 1},
                         c \in IndexChoices}

DistinctNames(l) == \A i, j \in 1..Len(l) : l[i].name = l[j].name => i = j

\* schema.indexes for a list of declarations
IndexesSchema(l) ==
    Node(FALSE, [i \in 1..Len(l) |-> l[i].name],
         [k \in {l[i].name : i \in 1..Len(l)} |->
            LET c == l[CHOOSE i \in 1..Len(l) : l[i].name = k]
            IN  Sub(IndexSchema(c.name, c.type, c.isSparse))])

\* schema.primaryKey: {attributes}
PrimaryKeys ==
    {Node(FALSE, <<"attributes">>, [k \in {"attributes"} |-> Sub(a)])
        : a \in {Leaves(FALSE, <<"PK", "SK">>, <<TmplUserId, TmplProfileId>>),
                 Leaves(FALSE, <<"PK", "SK">>, <<TmplId, TmplEmail>>)}}

\* the entity's schema: {primaryKey, indexes}; indexes is missing or empty when
\* the entity declares none
Schemas(l) ==
    {Node(FALSE, <<"primaryKey", "indexes">>,
          [k \in {"primaryKey", "indexes"} |->
              IF k = "primaryKey" THEN Sub(pk) ELSE Sub(IndexesSchema(l))])
        : pk \in PrimaryKeys} \cup
    (IF l # <<>> THEN {}
     ELSE {Node(FALSE, <<"primaryKey">>, [k \in {"primaryKey"} |-> Sub(pk)]) : pk \in PrimaryKeys})

\* connection.getAttributesForEntity(entityClass): no auto-generated attribute, or
\* email generated
AttributeLists ==
    {<<[name |-> "id", autoGenerated |-> FALSE, value |-> Undef]>>,
     <<[name |-> "id", autoGenerated |-> FALSE, value |-> Undef],
       [name |-> "email", autoGenerated |-> TRUE, value |-> Str("auto")]>>}

\* metadata._interpolations of every index as the schema builder records them: for
\* each index attribute, the attribute names its template references.  They are
\* kept beside the schema object: only getAffectedIndexesForAttributes reads them.
Interpolations(l) ==
    [k \in {l[i].name : i \in 1..Len(l)} |->
        LET c == l[CHOOSE i \in 1..Len(l) : l[i].name = k]
            attributes == IndexAttributes(c.type, c.isSparse)
        IN  [keys |-> attributes.keys,
             at |-> [a \in DOMAIN attributes.at |-> Referenced(attributes.at[a].tmpl)]]]

\* the same indexes with no _interpolations recorded
NoInterpolations(l) == [k \in {l[i].name : i \in 1..Len(l)} |-> [keys |-> <<>>, at |-> EmptyObject]]

Metadatas ==
    UNION {{[schema |-> sc, table |-> Table, attributes |-> at, interpolations |-> Interpolations(l)]
              : sc \in Schemas(l), at \in AttributeLists}
           : l \in {x \in IndexLists(MaxIndexes) : DistinctNames(x)}}

\* the metadata getAffectedIndexesForAttributes is run on: the indexes that are on
\* the table, with or without recorded interpolations
AffectedMetadatas ==
    UNION {{[schema |-> sc, table |-> Table, attributes |-> <<>>, interpolations |-> ip]
              : sc \in Schemas(l), ip \in {Interpolations(l), NoInterpolations(l)}}
           : l \in {x \in IndexLists(MaxIndexes) :
                        /\ DistinctNames(x)
                        /\ \A i \in 1..Len(x) : x[i].name \in DOMAIN Table /\ ~x[i].isSparse}}

\* the keys of a changed-attribute bag, in the order they are set
ChangedKeys == <<"id", "email", "email.x", "id#x">>

\* a changed value: a string, or an object (not a scalar)
ChangedValues == {Str(""), Str("42"), Obj(EmptyObject)}

RECURSIVE Pick(_, _, _)
\* the elements of sequence q at the positions in set S, in order, from position i
Pick(q, S, i) ==
    IF i > Len(q) THEN <<>>
    ELSE (IF i \in S THEN <<q[i]>> ELSE <<>>) \o Pick(q, S, i + 1)

\* the bags of at most MaxChanged changed attributes
ChangedBags ==
    UNION {{[keys |-> Pick(ChangedKeys, S, 1), at |-> f]
              : f \in [{ChangedKeys[i] : i \in S} -> ChangedValues]}
           : S \in {T \in SUBSET (1..Len(ChangedKeys)) : Cardinality(T) <= MaxChanged}}

\* options: none, or a nestedKeySeparator
OptionChoices == {Undef, Str("#"), Str("")}

\* the entities handed to toDynamoEntity: id and email, and possibly a field that
\* has the name of a key attribute
Entities ==
    UNION {{e, With(e, "GSI1SK", Str("old")), With(e, "PK", Str("old"))}
              : e \in EntitiesOver({"id", "email"})}

NoMetadata == [schema |-> <<>>, table |-> <<>>, attributes |-> <<>>, interpolations |-> <<>>]

-----------------------------------------------------------------------------
\* The transformer of a connection on which one entity is registered.

Init ==
    /\ metadata \in Metadatas
    /\ op = "none"
    /\ args = <<>>
    /\ ret = <<>>

ToDynamoEntity ==
    /\ op = "none"
    /\ \E entity \in Entities :
        /\ op' = "toDynamoEntity"
        /\ args' = [entity |-> entity]
        /\ ret' = toDynamoEntity(metadata, entity)
        /\ UNCHANGED metadata

GetParsedPrimaryKey ==
    /\ op = "none"
    /\ \E attributes \in Entities :
        /\ op' = "getParsedPrimaryKey"
        /\ args' = [table |-> metadata.table,
                    primaryKey |-> metadata.schema.at["primaryKey"].node,
                    attributes |-> attributes]
        /\ ret' = getParsedPrimaryKey(metadata.table, metadata.schema.at["primaryKey"].node,
                                      attributes)
        /\ UNCHANGED metadata

Next == ToDynamoEntity \/ GetParsedPrimaryKey

Spec == Init /\ [][Next]_vars

-----------------------------------------------------------------------------
\* The affected-index calculation.

InitAffected ==
    /\ metadata \in AffectedMetadatas
    /\ op = "none"
    /\ args = <<>>
    /\ ret = <<>>

GetAffectedIndexesForAttributes ==
    /\ op = "none"
    /\ \E attributes \in ChangedBags, options \in OptionChoices :
        /\ op' = "getAffectedIndexesForAttributes"
        /\ args' = [attributes |-> attributes, options |-> options]
        /\ ret' = getAffectedIndexesForAttributes(metadata, attributes, options)
        /\ UNCHANGED metadata

NextAffected == GetAffectedIndexesForAttributes

SpecAffected == InitAffected /\ [][NextAffected]_vars

-----------------------------------------------------------------------------
\* The walker on its own.

InitWalk ==
    /\ metadata = NoMetadata
    /\ op = "none"
    /\ args = <<>>
    /\ ret = <<>>

RecursiveParseEntity ==
    /\ op = "none"
    /\ \E schema \in SchemaObjects(MaxDepth), entity \in EntitiesOver({"id", "email"}),
          isSparse \in BOOLEAN :
        /\ op' = "recursiveParseEntity"
        /\ args' = [schema |-> schema, entity |-> entity, isSparse |-> isSparse]
        /\ ret' = recursiveParseEntity(schema, entity, isSparse)
        /\ UNCHANGED metadata

NextWalk == RecursiveParseEntity

SpecWalk == InitWalk /\ [][NextWalk]_vars

-----------------------------------------------------------------------------
\* Reading schema objects and results by path (a sequence of keys).

RECURSIVE NodeAt(_, _)
\* the schema object at path p of schema (p leads through nested objects)
NodeAt(schema, p) ==
    IF p = <<>> THEN schema ELSE NodeAt(schema.at[Head(p)].node, Tail(p))

RECURSIVE NodePaths(_)
\* the paths of the nested schema objects of schema
NodePaths(schema) ==
    UNION {{<<k>>} \cup {<<k>> \o q : q \in NodePaths(schema.at[k].node)}
              : k \in {x \in DOMAIN schema.at : ~schema.at[x].leaf}}

\* the template at leaf path p
TemplateAt(schema, p) == NodeAt(schema, SubSeq(p, 1, Len(p) - 1)).at[p[Len(p)]].tmpl

\* the leaf keys of a schema object
LeafKeys(node) == {k \in DOMAIN node.at : node.at[k].leaf}

RECURSIVE HasPath(_, _)
\* whether object o has a key at path p
HasPath(o, p) ==
    IF p = <<>> THEN TRUE
    ELSE /\ Head(p) \in DOMAIN o
         /\ \/ Len(p) = 1
            \/ o[Head(p)].t = "object" /\ HasPath(o[Head(p)].o, Tail(p))

RECURSIVE ValueAt(_, _)
\* the value at path p of object o (HasPath(o, p) holds)
ValueAt(o, p) == IF Len(p) = 1 THEN o[Head(p)] ELSE ValueAt(o[Head(p)].o, Tail(p))

RECURSIVE ValuePaths(_)
\* every path of object o
ValuePaths(o) ==
    UNION {{<<k>>} \cup (IF o[k].t = "object" THEN {<<k>> \o q : q \in ValuePaths(o[k].o)} ELSE {})
              : k \in DOMAIN o}

IsPrefix(p, q) == Len(p) <= Len(q) /\ SubSeq(q, 1, Len(p)) = p

\* the declaration of index k in the registered schema
IndexNode(k) == metadata.schema.at["indexes"].node.at[k].node
DeclaredType(k) == IndexNode(k).at["metadata"].node.at["type"].tmpl[1].s
DeclaredName(k) == IndexNode(k).at["metadata"].node.at["_name"].tmpl[1].s
DeclaredAttributes(k) == IndexNode(k).at["attributes"].node
DeclaredIndexes == {IndexKeys(metadata.schema)[i] : i \in 1..Len(IndexKeys(metadata.schema))}

HasSignature(k) == DeclaredName(k) \in DOMAIN metadata.table
Matches(k, type) ==
    DeclaredType(k) = type /\ HasSignature(k) /\ metadata.table[DeclaredName(k)].type = Str(type)

\* the resolved entry of index k and its resolved attributes
ResolvedIndex(k) == ret.parsedSchema["indexes"].o[k]
ResolvedAttributes(k) == ResolvedIndex(k).o["attributes"].o

Transformed == op = "toDynamoEntity" /\ ret.err = ""

-----------------------------------------------------------------------------
\* C1 as stated: for a non-sparse primary-key schema, getParsedPrimaryKey returns
\* a map with a value for every declared primary-key attribute or throws
\* MissingAttributeError; it never returns a map that lacks a declared attribute.
C1_PrimaryKeyCompleteOrThrows ==
    op = "getParsedPrimaryKey" =>
        \/ ret.err = "MissingAttributeError"
        \/ /\ ret.err = ""
           /\ DOMAIN args.primaryKey.at["attributes"].node.at \subseteq DOMAIN ret.v

\* index k is sparse and one of its templates references an attribute the entity lacks
SparseAndUnresolvable(k) ==
    /\ DeclaredAttributes(k).isSparse
    /\ \E a \in DOMAIN DeclaredAttributes(k).at :
         \E r \in Referenced(DeclaredAttributes(k).at[a].tmpl) : Get(ret.entity, r).t = "undefined"

\* key a of the result has a source other than index k
OtherSource(k, a) ==
    \/ a \in DOMAIN ret.entity
    \/ a \in DOMAIN ret.normalizedPrimaryKey
    \/ \E k2 \in DeclaredIndexes \ {k} : a \in DOMAIN ret.only[k2].o

\* C2 as stated: when a sparse index references an attribute absent on the entity,
\* the map toDynamoEntity returns has none of that index's attribute names as a key
\* (not even with undefined), and the index overwrites no entity field.
C2_SparseIndexLeavesNoKey ==
    Transformed =>
        \A k \in DeclaredIndexes :
            SparseAndUnresolvable(k) =>
                /\ \A a \in DOMAIN DeclaredAttributes(k).at :
                     ~OtherSource(k, a) => a \notin DOMAIN ret.v
                /\ \A f \in DOMAIN ret.entity :
                     (/\ f \notin DOMAIN ret.normalizedPrimaryKey
                      /\ \A k2 \in DeclaredIndexes \ {k} : f \notin DOMAIN ret.only[k2].o)
                        => ret.v[f] = ret.entity[f]

\* C3: a GSI whose table signature is a GSI is projected to exactly the signature's
\* partitionKey and sortKey, an LSI whose signature is an LSI to exactly its sortKey;
\* each kept value is the resolved index attribute of that name (undefined when it
\* did not resolve), and nothing else of the index is kept.
C3_ProjectionIsSignatureKeys ==
    Transformed =>
        \A k \in DeclaredIndexes :
            LET sig == metadata.table[DeclaredName(k)]
                kept == IF Matches(k, GSI) THEN {sig.partitionKey.s, sig.sortKey.s}
                        ELSE {sig.sortKey.s}
            IN  (Matches(k, GSI) \/ Matches(k, LSI)) =>
                    /\ DOMAIN ret.only[k].o = kept
                    /\ \A a \in kept : ret.only[k].o[a] = Get(ResolvedAttributes(k), a)

\* a GSI and an LSI were projected in one call, and each had a resolved attribute
\* that its projection dropped
C3_Witness ==
    /\ Transformed
    /\ \E g, l \in DeclaredIndexes :
        /\ Matches(g, GSI) /\ Matches(l, LSI)
        /\ DOMAIN ret.only[g].o = {"SK", "GSI1SK"}
        /\ DOMAIN ret.only[l].o = {"LSI1SK"}
        /\ "LSI1SK" \in DOMAIN ResolvedAttributes(g)
        /\ "GSI1SK" \in DOMAIN ResolvedAttributes(l)
        /\ ret.only[g].o["SK"].t = "string"

\* index k takes the fallback: no signature for its name, or one of another type
Fallback(k) == ~Matches(k, GSI) /\ ~Matches(k, LSI)

\* C4 as stated: when the table has no signature for the index's name, or the
\* signature's type differs from the declared type, the transform does not throw and
\* the resolved index entry is passed through unchanged into the merged result.
C4_FallbackPassesThrough ==
    (op = "toDynamoEntity" /\ ret.err # "MissingAttributeError") =>
        \A k \in DeclaredIndexes :
            Fallback(k) =>
                /\ ret.err = ""
                /\ ret.only[k] = ResolvedIndex(k)
                /\ DOMAIN ResolvedIndex(k).o \subseteq DOMAIN ret.v

\* the auto-generated attributes of the registered entity
AutoGenerated ==
    {metadata.attributes[i] : i \in {j \in 1..Len(metadata.attributes) :
                                        metadata.attributes[j].autoGenerated}}

\* C7: the map toDynamoEntity returns is the working entity (the entity's fields,
\* overwritten by the auto-generated values), overridden by the resolved primary key,
\* overridden by the normalized indexes; a key of the working entity that is in
\* neither later layer keeps the entity's value.
C7_MergePrecedence ==
    Transformed =>
        /\ DOMAIN ret.entity = DOMAIN args.entity \cup {a.name : a \in AutoGenerated}
        /\ \A a \in AutoGenerated : ret.entity[a.name] = a.value
        /\ \A f \in DOMAIN args.entity :
             f \notin {a.name : a \in AutoGenerated} => ret.entity[f] = args.entity[f]
        /\ DOMAIN ret.v = DOMAIN ret.entity \cup DOMAIN ret.normalizedPrimaryKey
                             \cup DOMAIN ret.normalizedIndexes
        /\ \A k \in DOMAIN ret.v :
             ret.v[k] = IF k \in DOMAIN ret.normalizedIndexes THEN ret.normalizedIndexes[k]
                        ELSE IF k \in DOMAIN ret.normalizedPrimaryKey
                        THEN ret.normalizedPrimaryKey[k]
                        ELSE ret.entity[k]

\* every override happened in one call: a generated value replaced the entity's, the
\* primary key replaced an entity field, an index replaced a primary-key attribute,
\* and a field of the entity alone was kept
C7_Witness ==
    /\ Transformed
    /\ \E a \in AutoGenerated : a.name \in DOMAIN args.entity /\ args.entity[a.name] # a.value
    /\ "PK" \in DOMAIN args.entity
    /\ {"PK", "SK"} \subseteq DOMAIN ret.normalizedPrimaryKey
    /\ ret.entity["PK"] # ret.normalizedPrimaryKey["PK"]
    /\ ret.v["PK"] = ret.normalizedPrimaryKey["PK"]
    /\ "SK" \in DOMAIN ret.normalizedIndexes
    /\ ret.normalizedIndexes["SK"] # ret.normalizedPrimaryKey["SK"]
    /\ ret.v["SK"] = ret.normalizedIndexes["SK"]
    /\ "id" \in DOMAIN args.entity
    /\ ret.v["id"] = args.entity["id"]

-----------------------------------------------------------------------------
Affected == op = "getAffectedIndexesForAttributes"

\* the changed attributes that count: top-level key, scalar value
Considered ==
    {k \in DOMAIN args.attributes.at :
        /\ ~Includes(k, IF args.options.t = "undefined" THEN "." ELSE args.options.s)
        /\ args.attributes.at[k].t = "string"}

\* the indexes whose _interpolations entry for index attribute a names a considered attribute
Referencing(a) ==
    {k \in DeclaredIndexes :
        /\ a \in DOMAIN metadata.interpolations[k].at
        /\ metadata.interpolations[k].at[a] \cap Considered # {}}

\* C5: the map returned is keyed by index-attribute names, not index names: its keys
\* are exactly the index attributes whose _interpolations entry, in some index, names a
\* changed attribute that is top-level and scalar; the value is that attribute's
\* template resolved against the whole bag; indexes that declare the same attribute
\* name share the one key.
C5_AffectedKeyedByIndexAttribute ==
    (Affected /\ ret.err = "") =>
        /\ DOMAIN ret.v =
             {a \in UNION {DOMAIN metadata.interpolations[k].at : k \in DeclaredIndexes} :
                 Referencing(a) # {}}
        /\ \A a \in DOMAIN ret.v :
             \E k \in Referencing(a) :
                 ret.v[a] = parseKey(DeclaredAttributes(k).at[a].tmpl, args.attributes.at, FALSE).v

\* two indexes declare the attribute GSI1SK with different templates, both reference
\* the changed id, and the result holds the single key GSI1SK
C5_Witness ==
    /\ Affected /\ ret.err = ""
    /\ Cardinality(Referencing("GSI1SK")) = 2
    /\ \E k1, k2 \in Referencing("GSI1SK") :
         DeclaredAttributes(k1).at["GSI1SK"].tmpl # DeclaredAttributes(k2).at["GSI1SK"].tmpl
    /\ "GSI1SK" \in DOMAIN ret.v
    /\ ret.v["GSI1SK"].s # ""
    /\ DOMAIN ret.v \cap DeclaredIndexes = {}

\* C6: when every changed attribute has a key that contains the separator ('.' or the
\* caller's) or a non-scalar value, the call returns the empty map, resolves no
\* template and does not throw.
C6_NestedOrNonScalarAffectNothing ==
    (Affected /\ Considered = {}) =>
        /\ ret.err = ""
        /\ ret.v = EmptyObject
        /\ ret.calls = {}

\* a bag of a non-scalar email and a key nested under the caller's separator, on
\* indexes whose interpolations name email: nothing is affected
C6_Witness ==
    /\ Affected /\ Considered = {}
    /\ args.options = Str("#")
    /\ DOMAIN args.attributes.at = {"email", "id#x"}
    /\ args.attributes.at["email"].t = "object"
    /\ \E k \in DeclaredIndexes :
         \E a \in DOMAIN metadata.interpolations[k].at : "email" \in metadata.interpolations[k].at[a]
    /\ ret.v = EmptyObject

-----------------------------------------------------------------------------
Walked == op = "recursiveParseEntity"

-----------------------------------------------------------------------------
\* C8 as stated: under a nested schema object that carries isSparse = true, every
\* leaf at any depth below it is resolved with isSparseIndex = true.
C8_SparseReachesAllDescendants ==
    Walked =>
        \A p \in NodePaths(args.schema) :
            NodeAt(args.schema, p).isSparse =>
                \A c \in ret.calls : IsPrefix(p, c.path) => c.sparse

\* C8 amended: a leaf inside a nested schema object is resolved with the isSparse
\* flag of the object that directly holds it (false when it has none), whatever the
\* flags of the objects further up and whatever the caller passed.
C8_SparseIsOwnNodeFlag ==
    Walked =>
        \A c \in ret.calls :
            Len(c.path) >= 2 =>
                c.sparse = NodeAt(args.schema, SubSeq(c.path, 1, Len(c.path) - 1)).isSparse

\* a sparse nested object holds an object without the flag, whose leaf was resolved
\* as non-sparse
C8_Witness ==
    /\ Walked
    /\ \E c \in ret.calls :
        /\ Len(c.path) = 3
        /\ NodeAt(args.schema, SubSeq(c.path, 1, 1)).isSparse
        /\ ~NodeAt(args.schema, SubSeq(c.path, 1, 2)).isSparse
        /\ ~c.sparse

\* C9 as stated: the result holds no empty object; a nested schema object whose
\* leaves all resolve to absent is left out of its parent's result.
C9_NoEmptyNode ==
    Walked /\ ret.err = "" =>
        \A p \in NodePaths(args.schema) :
            (LeafKeys(NodeAt(args.schema, p)) # {} /\ HasPath(ret.v, p)) =>
                ~isEmptyObject(ValueAt(ret.v, p).o)

\* C9 amended: absent leaves are left out at every depth, but every nested schema
\* object keeps its key in the result, as an empty object when nothing of it resolves.
C9_NestedObjectsKept ==
    Walked /\ ret.err = "" =>
        /\ \A p \in NodePaths(args.schema) :
            /\ HasPath(ret.v, p)
            /\ ValueAt(ret.v, p).t = "object"
            /\ DOMAIN ValueAt(ret.v, p).o \subseteq DOMAIN NodeAt(args.schema, p).at
        /\ \A c \in ret.calls :
            parseKey(TemplateAt(args.schema, c.path), args.entity, c.sparse).v.t = "undefined"
                => ~HasPath(ret.v, c.path)

\* a nested object with a leaf, all of whose leaves resolved to absent, is in the
\* result as an empty object
C9_Witness ==
    /\ Walked /\ ret.err = ""
    /\ \E p \in NodePaths(args.schema) :
        /\ LeafKeys(NodeAt(args.schema, p)) # {}
        /\ NodeAt(args.schema, p).isSparse
        /\ HasPath(ret.v, p)
        /\ isEmptyObject(ValueAt(ret.v, p).o)

\* C10: the result never holds a falsy leaf: a leaf whose template resolves to a
\* falsy value (undefined, the empty string) is left out, under a sparse and under
\* a non-sparse context alike, and no error is raised for it.
C10_FalsyLeavesOmitted ==
    Walked /\ ret.err = "" =>
        /\ \A p \in ValuePaths(ret.v) : Truthy(ValueAt(ret.v, p))
        /\ \A c \in ret.calls :
            LET r == parseKey(TemplateAt(args.schema, c.path), args.entity, c.sparse)
            IN  ~Truthy(r.v) => (r.err = "" /\ ~HasPath(ret.v, c.path))

\* a leaf resolved to the empty string under a non-sparse context: the call
\* returned without it
C10_Witness ==
    /\ Walked /\ ret.err = ""
    /\ \E c \in ret.calls :
        /\ ~c.sparse
        /\ parseKey(TemplateAt(args.schema, c.path), args.entity, FALSE) = Ok(Str(""))
        /\ ~HasPath(ret.v, c.path)

====
